---- MODULE Spec2Model ----
(***************************************************************************)
(* Profile knick-point decomposition and shape classification of GA-SaMMT  *)
(* (Tools/AddAttributesFunctions.py): profileAnalysis, findGroup,          *)
(* profileSlope, profileAngle, slopeClass and the driver                   *)
(* calculate_profile_attributes_high/low.                                  *)
(*                                                                         *)
(* Spec runs the driver on a profile; SpecGroup and SpecKeys enter it      *)
(* after detection, with any knick-point array; SpecCall calls slopeClass  *)
(* and calculateSlope alone; SpecBoth runs both drivers on one profile.    *)
(* SpecBatch is the loop over the features of calculateProfileBH / BL,     *)
(* SpecSplit is splitFeat, SpecVerify the loop of verifyDepression         *)
(* (Tools/ClassificationToolsFunctions.py) for one feature.                *)
(*                                                                         *)
(* Angles are fixed-point integers.  calculateSlope returns milli-degrees  *)
(* (ArctanTable holds round(1000*degrees(arctan(p/q)))).  Means and        *)
(* percentiles are kept exact by carrying them in "fine" units of          *)
(* 1/(1000*MeanScale*100) degree: MeanScale is divisible by every sample   *)
(* count a mean is taken over, 100 is the denominator of the linear        *)
(* interpolation pandas uses for the 0.95 and 0.99 quantiles.              *)
(***************************************************************************)
EXTENDS Integers, Sequences, FiniteSets, TLC

VARIABLES profileDF, gap, profileDF_copy, idArr1, idArr2, diffSlope_95,
          rounds, idArray, idList, i, idGroups, z2, pc,
          profileDF1, attributes, call

\* the state of one call of calculate_profile_attributes_high / _low
profileVars == <<profileDF, gap, profileDF_copy, idArr1, idArr2, diffSlope_95,
                 rounds, idArray, idList, i, idGroups, z2, pc,
                 profileDF1, attributes, call>>

\* the state of the callers
VARIABLES previous, split, batch, verify

toolVars == <<previous, split, batch, verify>>

vars == <<profileVars, toolVars>>

\* no caller has run
ToolIdle ==
    /\ previous = <<>>
    /\ split = <<>>
    /\ batch = <<>>
    /\ verify = <<>>

\* ------------------------------------------------------------------ bounds
MaxN == 6
MaxDepth == 1
MaxFirstId == 2
MaxGap == 4

\* ------------------------------------------------------- numeric encoding
MilliPerDegree == 1000
QuantileDenominator == 100
NaN == 2000000000

RECURSIVE Gcd(_, _)
Gcd(a, b) == IF b = 0 THEN a ELSE Gcd(b, a % b)

RECURSIVE LcmUpTo(_)
LcmUpTo(n) == IF n <= 1 THEN 1 ELSE LET l == LcmUpTo(n - 1) IN (l * n) \div Gcd(l, n)

MeanScale == LcmUpTo(MaxN - 1)
FinePerMilli == MeanScale * QuantileDenominator
OneDegree == MilliPerDegree * FinePerMilli

Abs(a) == IF a < 0 THEN 0 - a ELSE a

\* IEEE comparisons: every comparison with NaN is False
Gt(a, b) == a # NaN /\ b # NaN /\ a > b
\* faulty variant of Geq: strict comparison
Geq_Strict(a, b) == a # NaN /\ b # NaN /\ a > b
Geq(a, b) == a # NaN /\ b # NaN /\ a >= b
Lt(a, b) == a # NaN /\ b # NaN /\ a < b

\* faulty variant of PyMax3: the minimum of the three
PyMax3_Min(a, b, c) ==
    LET m1 == IF Lt(b, a) THEN b ELSE a
    IN  IF Lt(c, m1) THEN c ELSE m1

\* Python's builtin max(a, b, c): keeps the running maximum, replaced only
\* when the next item compares greater
PyMax3(a, b, c) ==
    LET m1 == IF Gt(b, a) THEN b ELSE a
    IN  IF Gt(c, m1) THEN c ELSE m1

\* round(1000 * degrees(arctan(p / q))) for p in 0..4 (row p+1), q in 1..7
ArctanTable ==
    << <<0, 0, 0, 0, 0, 0, 0>>,
       <<45000, 26565, 18435, 14036, 11310, 9462, 8130>>,
       <<63435, 45000, 33690, 26565, 21801, 18435, 15945>>,
       <<71565, 56310, 45000, 36870, 30964, 26565, 23199>>,
       <<75964, 63435, 53130, 45000, 38660, 33690, 29745>> >>

ISqrt(n) == CHOOSE r \in 0..n : r * r <= n /\ (r + 1) * (r + 1) > n

\* np.sqrt((x1-x2)^2 + (y1-y2)^2); exact on the profiles of Init (y = 0)
calculateDistance(x1, y1, x2, y2) ==
    ISqrt((x1 - x2) * (x1 - x2) + (y1 - y2) * (y1 - y2))

\* faulty variant of calculateSlope: the magnitude of the gradient
calculateSlope_Unsigned(e1, e2, d) ==
    IF d = 0 THEN 90 * MilliPerDegree
    ELSE ArctanTable[Abs(e1 - e2) + 1][d]

\* slope gradient in milli-degrees; e1 is the end point, e2 the start point
calculateSlope(e1, e2, d) ==
    IF d = 0 THEN 90 * MilliPerDegree
    ELSE IF e1 - e2 >= 0 THEN ArctanTable[(e1 - e2) + 1][d]
         ELSE 0 - ArctanTable[(e2 - e1) + 1][d]

\* ------------------------------------------------------------ data frames
\* profileDF: sequence of rows [id, x, y, depth]; id is the index label
Ids(df) == [k \in 1..Len(df) |-> df[k].id]
IdSet(df) == {df[k].id : k \in 1..Len(df)}
\* index labels are consecutive, so label id sits at position id - first + 1
Row(df, id) == df[id - df[1].id + 1]
SeqSet(s) == {s[k] : k \in 1..Len(s)}

RECURSIVE SumSeq(_)
SumSeq(s) == IF s = <<>> THEN 0 ELSE Head(s) + SumSeq(Tail(s))

RECURSIVE FilterSeq(_, _)
FilterSeq(s, keep) ==
    IF s = <<>> THEN <<>>
    ELSE IF Head(s) \in keep THEN <<Head(s)>> \o FilterSeq(Tail(s), keep)
         ELSE FilterSeq(Tail(s), keep)

SeqMax(s) == CHOOSE m \in SeqSet(s) : \A v \in SeqSet(s) : v <= m
SeqMin(s) == CHOOSE m \in SeqSet(s) : \A v \in SeqSet(s) : m <= v

\* Series.quantile(pct/100): NaN skipped, linear interpolation between the
\* order statistics floor(h) and floor(h)+1, h = (n-1)*pct/100
Quantile(vals, pct) ==
    LET v == SelectSeq(vals, LAMBDA a : a # NaN)
        n == Len(v)
        s == SortSeq(v, LAMBDA a, b : a < b)
        h == (n - 1) * pct
        lo == h \div QuantileDenominator
        f == h % QuantileDenominator
    IN  IF n = 0 THEN NaN
        ELSE IF f = 0 THEN s[lo + 1]
        ELSE s[lo + 1] + ((s[lo + 2] - s[lo + 1]) \div QuantileDenominator) * f

\* slope between the first row holding the maximum depth and the first row
\* holding the minimum depth (milli-degrees, signed)
calculateSlopeThreshold(df) ==
    LET depths == [k \in 1..Len(df) |-> df[k].depth]
        kMax == CHOOSE k \in 1..Len(df) :
                   /\ df[k].depth = SeqMax(depths)
                   /\ \A j \in 1..(k - 1) : df[j].depth # SeqMax(depths)
        kMin == CHOOSE k \in 1..Len(df) :
                   /\ df[k].depth = SeqMin(depths)
                   /\ \A j \in 1..(k - 1) : df[j].depth # SeqMin(depths)
        dist == calculateDistance(df[kMax].x, df[kMax].y, df[kMin].x, df[kMin].y)
    IN  calculateSlope(df[kMax].depth, df[kMin].depth, dist)

\* np.mean of a non-empty list of milli-degree slopes, in fine units
MeanFine(slopes) ==
    SumSeq(slopes) * (MeanScale \div Len(slopes)) * QuantileDenominator

\* upSlope of row id within the working rows work (sequence of ids)
UpSlope(df, work, id) ==
    LET up == SelectSeq(work, LAMBDA j : j < id)
        p == Row(df, id)
    IN  IF Len(up) = 0 THEN NaN
        ELSE MeanFine([k \in 1..Len(up) |->
                 LET q == Row(df, up[k])
                 IN  calculateSlope(p.depth, q.depth,
                                    calculateDistance(p.x, p.y, q.x, q.y))])

DownSlope(df, work, id) ==
    LET down == SelectSeq(work, LAMBDA j : j > id)
        p == Row(df, id)
    IN  IF Len(down) = 0 THEN NaN
        ELSE MeanFine([k \in 1..Len(down) |->
                 LET q == Row(df, down[k])
                 IN  calculateSlope(q.depth, p.depth,
                                    calculateDistance(p.x, p.y, q.x, q.y))])

\* faulty variant of DiffSlope: a row with slopes on one side only takes the
\* slope of that side
DiffSlope_OneSided(df, work, id) ==
    LET u == UpSlope(df, work, id)
        d == DownSlope(df, work, id)
    IN  IF u = NaN /\ d = NaN THEN NaN
        ELSE IF u = NaN THEN Abs(d)
        ELSE IF d = NaN THEN Abs(u)
        ELSE Abs(u - d)

DiffSlope(df, work, id) ==
    LET u == UpSlope(df, work, id)
        d == DownSlope(df, work, id)
    IN  IF u = NaN \/ d = NaN THEN NaN ELSE Abs(u - d)

\* faulty variant of profileAnalysis: the selected rows are not removed from
\* the profile data
profileAnalysis_KeepsSelected(df, work, idArr, slopeThreshold) ==
    LET diff == [k \in 1..Len(work) |-> DiffSlope(df, work, work[k])]
        p95 == Quantile(diff, 95)
        cut == PyMax3(Quantile(diff, 99), slopeThreshold, OneDegree)
        selectedID == {work[k] : k \in {j \in 1..Len(work) : Geq(diff[j], cut)}}
    IN  [profileDF |-> work,
         idArr |-> idArr,
         idArr_new |-> idArr \o FilterSeq(work, selectedID),
         diffSlope_95 |-> p95,
         diffSlope |-> [k \in 1..Len(work) |-> <<work[k], diff[k]>>],
         cut |-> cut,
         selectedID |-> selectedID]

\* faulty variant of profileAnalysis: the selected rows are taken to be the
\* rows that are not kept
profileAnalysis_SelectsNotKept(df, work, idArr, slopeThreshold) ==
    LET diff == [k \in 1..Len(work) |-> DiffSlope(df, work, work[k])]
        p95 == Quantile(diff, 95)
        cut == PyMax3(Quantile(diff, 99), slopeThreshold, OneDegree)
        kept == {work[k] : k \in {j \in 1..Len(work) : Lt(diff[j], cut)}}
        selectedID == SeqSet(work) \ kept
    IN  [profileDF |-> FilterSeq(work, kept),
         idArr |-> idArr,
         idArr_new |-> idArr \o FilterSeq(work, selectedID),
         diffSlope_95 |-> p95,
         diffSlope |-> [k \in 1..Len(work) |-> <<work[k], diff[k]>>],
         cut |-> cut,
         selectedID |-> selectedID]

\* one round of knick-point detection over the working rows
profileAnalysis(df, work, idArr, slopeThreshold) ==
    LET diff == [k \in 1..Len(work) |-> DiffSlope(df, work, work[k])]
        p95 == Quantile(diff, 95)
        cut == PyMax3(Quantile(diff, 99), slopeThreshold, OneDegree)
        selectedID == {work[k] : k \in {j \in 1..Len(work) : Geq(diff[j], cut)}}
        kept == {work[k] : k \in {j \in 1..Len(work) : Lt(diff[j], cut)}}
    IN  [profileDF |-> FilterSeq(work, kept),
         idArr |-> idArr,
         idArr_new |-> idArr \o FilterSeq(work, selectedID),
         diffSlope_95 |-> p95,
         diffSlope |-> [k \in 1..Len(work) |-> <<work[k], diff[k]>>],
         cut |-> cut,
         selectedID |-> selectedID]

\* record of one executed round (locals of the call)
RoundRecord(work, slopeThreshold, r) ==
    [work |-> work, slopeThreshold |-> slopeThreshold,
     diffSlope |-> r.diffSlope, selectedID |-> r.selectedID,
     diffSlope_95 |-> r.diffSlope_95, idArr |-> r.idArr,
     idArr_new |-> r.idArr_new, left |-> r.profileDF]

\* ------------------------------------------------------------------- Init
Depths == (0 - MaxDepth)..0

\* n samples with labels firstId..firstId+n-1 (the OBJECTIDs of one profile
\* of the merged point table) along the x axis at unit spacing
MkProfile(n, firstId, depth) ==
    [k \in 1..n |->
        [id |-> firstId + k - 1, x |-> k - 1, y |-> 0, depth |-> depth[k]]]

Profiles ==
    UNION {{MkProfile(n, f, d) : f \in 1..MaxFirstId, d \in [1..n -> Depths]}
           : n \in 2..MaxN}

Init ==
    /\ ToolIdle
    /\ profileDF \in Profiles
    /\ gap = IF Len(profileDF) > 10 THEN 4 ELSE 3
    /\ profileDF_copy = Ids(profileDF)
    /\ idArr1 = <<>>
    /\ idArr2 = <<>>
    /\ diffSlope_95 = NaN
    /\ rounds = <<>>
    /\ idArray = <<>>
    /\ idList = <<>>
    /\ i = 0
    /\ idGroups = <<>>
    /\ z2 = <<>>
    /\ profileDF1 = <<>>
    /\ attributes = <<>>
    /\ call = <<>>
    /\ pc = "start"

\* ---------------------------------------------------------------- actions
\* the slope threshold and the first round of profile analysis
FirstRound ==
    /\ pc = "start"
    /\ LET slopeThreshold == Abs(calculateSlopeThreshold(profileDF)) * FinePerMilli
       IN  \E r \in {profileAnalysis(profileDF, profileDF_copy, <<>>, slopeThreshold)} :
           /\ profileDF_copy' = r.profileDF
           /\ idArr1' = r.idArr
           /\ idArr2' = r.idArr_new
           /\ diffSlope_95' = r.diffSlope_95
           /\ rounds' = Append(rounds, RoundRecord(profileDF_copy, slopeThreshold, r))
    /\ pc' = "loop"
    /\ UNCHANGED toolVars
    /\ UNCHANGED <<profileDF1, attributes, call,
                   profileDF, gap, idArray, idList, i, idGroups, z2>>

\* faulty variant of LoopRound: the 95th percentile returned by each round
\* replaces diffSlope_95
LoopRound_CarriesThreshold ==
    /\ pc = "loop"
    /\ Len(idArr2) > Len(idArr1)
    /\ \E r \in {profileAnalysis(profileDF, profileDF_copy, idArr2, diffSlope_95)} :
           /\ profileDF_copy' = r.profileDF
           /\ idArr1' = r.idArr
           /\ idArr2' = r.idArr_new
           /\ diffSlope_95' = r.diffSlope_95
           /\ rounds' = Append(rounds, RoundRecord(profileDF_copy, diffSlope_95, r))
    /\ UNCHANGED toolVars
    /\ UNCHANGED <<profileDF1, attributes, call,
                   profileDF, gap, idArray, idList, i, idGroups, z2, pc>>

\* body of  while idArr2.size > idArr1.size
LoopRound ==
    /\ pc = "loop"
    /\ Len(idArr2) > Len(idArr1)
    /\ \E r \in {profileAnalysis(profileDF, profileDF_copy, idArr2, diffSlope_95)} :
           /\ profileDF_copy' = r.profileDF
           /\ idArr1' = r.idArr
           /\ idArr2' = r.idArr_new
           /\ rounds' = Append(rounds, RoundRecord(profileDF_copy, diffSlope_95, r))
    /\ UNCHANGED toolVars
    /\ UNCHANGED <<profileDF1, attributes, call,
                   profileDF, gap, diffSlope_95, idArray, idList, i, idGroups, z2, pc>>

\* faulty variant of SortIds: the loop is also left when at most two rows
\* remain in the working profile data
SortIds_StopsAtTwoRows ==
    /\ pc = "loop"
    /\ (~(Len(idArr2) > Len(idArr1)) \/ Len(profileDF_copy) <= 2)
    /\ idArray' = SortSeq(idArr2, LAMBDA a, b : a < b)
    /\ idList' = [k \in 1..Len(idArr2) |-> [isList |-> FALSE, val |-> <<idArray'[k]>>]]
    /\ i' = 0
    /\ pc' = "group"
    /\ UNCHANGED toolVars
    /\ UNCHANGED <<profileDF1, attributes, call,
                   profileDF, gap, profileDF_copy, idArr1, idArr2, diffSlope_95,
                   rounds, idGroups, z2>>

\* loop exit; idArray = np.sort(idArr2); idList = idArray.tolist()
SortIds ==
    /\ pc = "loop"
    /\ ~(Len(idArr2) > Len(idArr1))
    /\ idArray' = SortSeq(idArr2, LAMBDA a, b : a < b)
    /\ idList' = [k \in 1..Len(idArr2) |-> [isList |-> FALSE, val |-> <<idArray'[k]>>]]
    /\ i' = 0
    /\ pc' = "group"
    /\ UNCHANGED toolVars
    /\ UNCHANGED <<profileDF1, attributes, call,
                   profileDF, gap, profileDF_copy, idArr1, idArr2, diffSlope_95,
                   rounds, idGroups, z2>>

\* faulty variant of Absorb: the id that fails the gap test is dropped
RECURSIVE Absorb_DropsBreaker(_, _, _)
Absorb_DropsBreaker(arr1, arr, g) ==
    IF arr = <<>> THEN <<arr1, arr>>
    ELSE IF arr[1] - arr1[Len(arr1)] < g
         THEN Absorb_DropsBreaker(Append(arr1, arr[1]), Tail(arr), g)
         ELSE <<arr1, Tail(arr)>>

\* faulty variant of Absorb: ids exactly g apart are grouped too
RECURSIVE Absorb_Inclusive(_, _, _)
Absorb_Inclusive(arr1, arr, g) ==
    IF arr # <<>> /\ arr[1] - arr1[Len(arr1)] <= g
    THEN Absorb_Inclusive(Append(arr1, arr[1]), Tail(arr), g)
    ELSE <<arr1, arr>>

\* the while loop of findGroup: absorb arr[0] while it is less than g away
\* from the last absorbed id
RECURSIVE Absorb(_, _, _)
Absorb(arr1, arr, g) ==
    IF arr # <<>> /\ arr[1] - arr1[Len(arr1)] < g
    THEN Absorb(Append(arr1, arr[1]), Tail(arr), g)
    ELSE <<arr1, arr>>

\* findGroup(arr, gap): <<the group starting at arr[0], the rest of arr>>
findGroup(arr, g) == Absorb(<<arr[1]>>, Tail(arr), g)

\* one iteration of  while i < len(idList)  (find the ids groups)
GroupStep ==
    /\ pc = "group"
    /\ i < Len(idList)
    /\ IF Len(idArray) > 0
       THEN \E r \in {findGroup(idArray, gap)} :
               /\ idList' = [idList EXCEPT ![i + 1] = [isList |-> TRUE, val |-> r[1]]]
               /\ idArray' = r[2]
       ELSE UNCHANGED <<idList, idArray>>
    /\ i' = i + 1
    /\ UNCHANGED toolVars
    /\ UNCHANGED <<profileDF1, attributes, call,
                   profileDF, gap, profileDF_copy, idArr1, idArr2, diffSlope_95,
                   rounds, idGroups, z2, pc>>

\* idGroups: the entries of idList that are lists
ListEntries(l) ==
    LET sel == SelectSeq(l, LAMBDA e : e.isList)
    IN  [k \in 1..Len(sel) |-> sel[k].val]

CollectGroups ==
    /\ pc = "group"
    /\ ~(i < Len(idList))
    /\ idGroups' = ListEntries(idList)
    /\ pc' = "select"
    /\ UNCHANGED toolVars
    /\ UNCHANGED <<profileDF1, attributes, call,
                   profileDF, gap, profileDF_copy, idArr1, idArr2, diffSlope_95,
                   rounds, idArray, idList, i, z2>>

\* m3 = abs(m2 - m1) with m1 = i - 1 and m2 = profileDF.index.size - i
Score(id, size) == Abs((size - id) - (id - 1))

\* faulty variant of Representative: the last member holding the minimum
Representative_LastMinimum(idGroup, size) ==
    LET z1_1 == [k \in 1..Len(idGroup) |-> Score(idGroup[k], size)]
        indexX == CHOOSE k \in 1..Len(idGroup) :
                     /\ z1_1[k] = SeqMin(z1_1)
                     /\ \A j \in (k + 1)..Len(idGroup) : z1_1[j] # SeqMin(z1_1)
    IN  idGroup[indexX]

\* z_1[z1_1.index(min(z1_1))]: the first member holding the minimum score
Representative(idGroup, size) ==
    LET z1_1 == [k \in 1..Len(idGroup) |-> Score(idGroup[k], size)]
        indexX == CHOOSE k \in 1..Len(idGroup) :
                     /\ z1_1[k] = SeqMin(z1_1)
                     /\ \A j \in 1..(k - 1) : z1_1[j] # SeqMin(z1_1)
    IN  idGroup[indexX]

\* faulty variant of SelectKeys: the last index label is not appended
SelectKeys_WithoutLast ==
    /\ pc = "select"
    /\ z2' = <<profileDF[1].id>>
             \o [k \in 1..Len(idGroups) |-> Representative(idGroups[k], Len(profileDF))]
    /\ i' = Len(idGroups)
    /\ pc' = "done"
    /\ UNCHANGED toolVars
    /\ UNCHANGED <<profileDF1, attributes, call,
                   profileDF, gap, profileDF_copy,
                   idArr1, idArr2, diffSlope_95, rounds, idArray, idList, idGroups>>

\* one knick point per group, then the first and the last index label
SelectKeys ==
    /\ pc = "select"
    /\ z2' = <<profileDF[1].id>>
             \o [k \in 1..Len(idGroups) |-> Representative(idGroups[k], Len(profileDF))]
             \o <<profileDF[Len(profileDF)].id>>
    /\ i' = Len(idGroups)
    /\ pc' = "done"
    /\ UNCHANGED toolVars
    /\ UNCHANGED <<profileDF1, attributes, call,
                   profileDF, gap, profileDF_copy, idArr1, idArr2, diffSlope_95,
                   rounds, idArray, idList, idGroups>>

\* ------------------------------------------------------ shape classifier
\* profileDF.loc[z2]: the rows of df carrying the labels of z2, in that order
Loc(df, labels) == [k \in 1..Len(labels) |-> Row(df, labels[k])]

\* faulty variant of profileSlope: no closing segment, the last entry
\* repeats the segment before it
profileSlope_Open(df) ==
    LET size == Len(df)
        from(k) == IF k = size THEN k - 1 ELSE k
        dist(k) == calculateDistance(df[from(k)].x, df[from(k)].y,
                                     df[from(k) + 1].x, df[from(k) + 1].y)
        slope(k) == Abs(calculateSlope(df[from(k) + 1].depth, df[from(k)].depth, dist(k)))
    IN  <<[k \in 1..size |-> dist(k)], [k \in 1..size |-> slope(k)]>>

\* the simplified profile as a closed ring: segment k joins row k to row
\* k + 1, the last segment joins the last row back to the first.  Returns
\* <<dList, slList>>, slopes as absolute values in milli-degrees.
profileSlope(df) ==
    LET size == Len(df)
        dist(k) == IF k = size
                   THEN calculateDistance(df[k].x, df[k].y, df[1].x, df[1].y)
                   ELSE calculateDistance(df[k].x, df[k].y, df[k + 1].x, df[k + 1].y)
        slope(k) == IF k = size
                    THEN Abs(calculateSlope(df[k].depth, df[1].depth, dist(k)))
                    ELSE Abs(calculateSlope(df[k + 1].depth, df[k].depth, dist(k)))
    IN  <<[k \in 1..size |-> dist(k)], [k \in 1..size |-> slope(k)]>>

\* faulty variant of profileAngle: the inner angles are taken on the far
\* side of the straight angle
profileAngle_Reflex(df) ==
    LET size == Len(df)
    IN  [k \in 1..size |->
           IF k = 1 THEN Abs(df[1].slope - df[size].slope)
           ELSE IF k = size THEN Abs(df[size].slope - df[k - 1].slope)
           ELSE 180 * MilliPerDegree + Abs(df[k - 1].slope - df[k].slope)]

\* the polygon angles from the slope column, in milli-degrees
profileAngle(df) ==
    LET size == Len(df)
    IN  [k \in 1..size |->
           IF k = 1 THEN Abs(df[1].slope - df[size].slope)
           ELSE IF k = size THEN Abs(df[size].slope - df[k - 1].slope)
           ELSE 180 * MilliPerDegree - Abs(df[k - 1].slope - df[k].slope)]

\* profileDF1 with its slope, dist and polygonAngle columns
Simplified(df, labels) ==
    LET rows == Loc(df, labels)
        ds == profileSlope(rows)
        withSlope == [k \in 1..Len(rows) |->
                        [id |-> rows[k].id, x |-> rows[k].x, y |-> rows[k].y,
                         depth |-> rows[k].depth,
                         slope |-> ds[2][k], dist |-> ds[1][k]]]
        angleList == profileAngle(withSlope)
    IN  [k \in 1..Len(rows) |->
           [id |-> rows[k].id, x |-> rows[k].x, y |-> rows[k].y,
            depth |-> rows[k].depth, slope |-> ds[2][k], dist |-> ds[1][k],
            polygonAngle |-> angleList[k]]]

\* faulty variant of slopeClass: the upper boundary of a class is inclusive
slopeClass_UpperInclusive(slope) ==
    IF slope[1] <= 5 * MilliPerDegree * slope[2] THEN "flat"
    ELSE IF slope[1] <= 10 * MilliPerDegree * slope[2] THEN "gentle"
    ELSE IF slope[1] <= 30 * MilliPerDegree * slope[2] THEN "moderate"
    ELSE "steep"

\* slopeClass of the angle slope[1] / slope[2] milli-degrees (slope[2] > 0)
slopeClass(slope) ==
    IF slope[1] < 5 * MilliPerDegree * slope[2] THEN "flat"
    ELSE IF slope[1] < 10 * MilliPerDegree * slope[2] THEN "gentle"
    ELSE IF slope[1] < 30 * MilliPerDegree * slope[2] THEN "moderate"
    ELSE "steep"

Column(df, col) == [k \in 1..Len(df) |-> df[k][col]]

\* pandas skew of a column: NaN below three values, 0 when all values are
\* equal, else  n * sqrt(n - 1) / (n - 2) * m3 / m2^1.5  with m2 and m3 the
\* sums of the squared and cubed deviations from the mean.  Kept exact as
\* the sign and the square num / den of the value (m2 and m3 below are the
\* sums scaled by n and n^2).
skew(v) ==
    LET n == Len(v)
        s1 == SumSeq(v)
        s2 == SumSeq([k \in 1..n |-> v[k] * v[k]])
        s3 == SumSeq([k \in 1..n |-> v[k] * v[k] * v[k]])
        m2 == n * s2 - s1 * s1
        m3 == n * n * s3 - 3 * n * s1 * s2 + 2 * s1 * s1 * s1
    IN  IF n < 3 THEN [nan |-> TRUE, sign |-> 0, num |-> 0, den |-> 1]
        ELSE IF m2 = 0 THEN [nan |-> FALSE, sign |-> 0, num |-> 0, den |-> 1]
        ELSE [nan |-> FALSE,
              sign |-> IF m3 > 0 THEN 1 ELSE IF m3 < 0 THEN 0 - 1 ELSE 0,
              num |-> n * (n - 1) * m3 * m3,
              den |-> (n - 2) * (n - 2) * m2 * m2 * m2]

\* abs(skewness) < p / q; False for NaN
AbsBelow(skewness, p, q) ==
    ~skewness.nan /\ q * q * skewness.num < p * p * skewness.den

\* faulty variant of Symmetry: skewness < 0.2 without the abs
Symmetry_Signed(df) ==
    IF skew(Column(df, "depth")).sign < 0 \/ AbsBelow(skew(Column(df, "depth")), 1, 5)
    THEN "Symmetric" ELSE "Asymmetric"

\* symmetry from the skewness of the depths of the full profile (0.2 = 1/5)
Symmetry(df) ==
    IF AbsBelow(skew(Column(df, "depth")), 1, 5) THEN "Symmetric" ELSE "Asymmetric"

\* faulty variant of sideSlope: always the plain average
sideSlope_Unweighted(slope1, slope2, dist1, dist2) == <<slope1 + slope2, 2>>

\* the side slope as a fraction <<numerator, denominator>> of milli-degrees
sideSlope(slope1, slope2, dist1, dist2) ==
    IF dist1 = 0 \/ dist2 = 0
    THEN <<slope1 + slope2, 2>>
    ELSE <<slope1 * dist1 + slope2 * dist2, dist1 + dist2>>

\* faulty variant of topSlope: the side segments are averaged in
topSlope_WithSides(df1) ==
    LET sList == [k \in 1..(Len(df1) - 1) |-> df1[k].slope]
    IN  <<Abs(SumSeq(sList)), Len(sList)>>

\* abs(sum(sList) / len(sList)), sList the slopes of rows 1 .. size - 3
\* (0-based), as a fraction of milli-degrees
topSlope(df1) ==
    LET sList == [k \in 1..(Len(df1) - 3) |-> df1[k + 1].slope]
    IN  <<Abs(SumSeq(sList)), Len(sList)>>

\* faulty variant of Concave: a straight angle counts as concave
Concave_FromStraight(df1) ==
    SeqMax(Column(df1, "polygonAngle")) >= 180 * MilliPerDegree

\* profileDF1.polygonAngle.max() > 180
Concave(df1) == SeqMax(Column(df1, "polygonAngle")) > 180 * MilliPerDegree

\* faulty variant of FlatCase: the symmetry computed from the skewness stays
FlatCase_KeepsSymmetry(symmetry) ==
    [shape |-> "Flat", symmetry |-> symmetry, topClass |-> "flat",
     concave |-> "NA", slClass |-> "NA"]

\* the simplified profile has only two points
FlatCase(symmetry) ==
    [shape |-> "Flat", symmetry |-> "NA", topClass |-> "flat",
     concave |-> "NA", slClass |-> "NA"]

\* faulty variant of Shape: a profile with a top (bottom) segment is given
\* the class of the triangle case
Shape_NoExtreme(df, df1, noTop) ==
    LET size == Len(df1)
        symmetry == Symmetry(df)
    IN  IF size = 2 THEN FlatCase(symmetry)
        ELSE [shape |-> IF size = 3 THEN "Triangle" ELSE "Regular",
              symmetry |-> symmetry,
              topClass |-> noTop,
              concave |-> "Convex",
              slClass |-> slopeClass(sideSlope(Abs(df1[1].slope), Abs(df1[size - 1].slope),
                                               Abs(df1[1].dist), Abs(df1[size - 1].dist)))]

\* shape, symmetry, slope classes and concavity; noTop is "no top" in
\* calculate_profile_attributes_high and "no bottom" in ..._low
Shape(df, df1, noTop) ==
    LET size == Len(df1)
        symmetry == Symmetry(df)
    IN  IF size = 2 THEN FlatCase(symmetry)
        ELSE IF size = 3
        THEN [shape |-> "Triangle", symmetry |-> symmetry, topClass |-> noTop,
              concave |-> "Convex",
              slClass |-> slopeClass(sideSlope(Abs(df1[1].slope), Abs(df1[2].slope),
                                               Abs(df1[1].dist), Abs(df1[2].dist)))]
        ELSE [shape |-> IF Concave(df1) THEN "Irregular" ELSE "Regular",
              symmetry |-> symmetry,
              topClass |-> slopeClass(topSlope(df1)),
              concave |-> IF Concave(df1) THEN "Concave" ELSE "Convex",
              slClass |-> slopeClass(sideSlope(Abs(df1[1].slope), Abs(df1[size - 1].slope),
                                               Abs(df1[1].dist), Abs(df1[size - 1].dist)))]

\* str(x) of a number
Str(x) == ToString(x)

\* faulty variant of ExtremeDepth: the signed depth
ExtremeDepth_Signed(df, high) ==
    IF high THEN Str(SeqMax(Column(df, "depth")))
    ELSE Str(SeqMin(Column(df, "depth")))

\* topDepth = str(abs(max depth)), bottomDepth = str(abs(min depth))
ExtremeDepth(df, high) ==
    IF high THEN Str(Abs(SeqMax(Column(df, "depth"))))
    ELSE Str(Abs(SeqMin(Column(df, "depth"))))

\* the tuple returned by calculate_profile_attributes_high / _low
Attributes(df, df1, high) ==
    LET sh == Shape(df, df1, IF high THEN "no top" ELSE "no bottom")
        size == Len(df1)
        depth == Column(df, "depth")
    IN  [shape |-> sh.shape,
         symmetry |-> sh.symmetry,
         concave |-> sh.concave,
         extremeSlopeClass |-> sh.topClass,
         sideSlopeClass |-> sh.slClass,
         extremeDepth |-> IF size = 2 THEN "NA" ELSE ExtremeDepth(df, high),
         height |-> IF size = 2 THEN "NA" ELSE Str(SeqMax(depth) - SeqMin(depth)),
         length |-> IF size = 2 THEN "NA"
                    ELSE Str(calculateDistance(df[Len(df)].x, df1[size].y,
                                               df1[1].x, df1[1].y))]

\* the statements after the knick points are chosen: the simplified
\* profile, its slopes and angles, and the attributes returned
Classify(high) ==
    /\ pc = "done"
    /\ \E df1 \in {Simplified(profileDF, z2)} :
          /\ profileDF1' = df1
          /\ attributes' = Attributes(profileDF, df1, high)
    /\ call' = [function |-> IF high THEN "calculate_profile_attributes_high"
                             ELSE "calculate_profile_attributes_low"]
    /\ pc' = "returned"
    /\ UNCHANGED toolVars
    /\ UNCHANGED <<profileDF, gap, profileDF_copy, idArr1, idArr2, diffSlope_95,
                   rounds, idArray, idList, i, idGroups, z2>>

\* calculate_profile_attributes_high and calculate_profile_attributes_low
\* run the same statements up to this point
ClassifyHigh == Classify(TRUE)
ClassifyLow == Classify(FALSE)

Next ==
    \/ FirstRound \/ LoopRound \/ SortIds \/ GroupStep \/ CollectGroups
    \/ SelectKeys \/ ClassifyHigh \/ ClassifyLow

Spec == Init /\ [][Next]_vars

\* ------------------------------------------- grouping on arbitrary arrays
\* the grouping stage entered with any knick-point array over the interior
\* labels of a profile, in any order, and any gap
Arrangements(S) ==
    UNION {{s \in [1..k -> S] : \A a, b \in 1..k : a # b => s[a] # s[b]}
           : k \in 0..Cardinality(S)}

InitGroup ==
    /\ ToolIdle
    /\ profileDF \in UNION {{MkProfile(n, f, [k \in 1..n |-> 0]) : f \in 1..MaxFirstId}
                            : n \in 2..MaxN}
    /\ gap \in 1..MaxGap
    /\ idArr2 \in Arrangements({profileDF[k].id : k \in 2..(Len(profileDF) - 1)})
    /\ idArr1 = idArr2
    /\ profileDF_copy = <<>>
    /\ diffSlope_95 = NaN
    /\ rounds = <<>>
    /\ idArray = <<>>
    /\ idList = <<>>
    /\ i = 0
    /\ idGroups = <<>>
    /\ z2 = <<>>
    /\ profileDF1 = <<>>
    /\ attributes = <<>>
    /\ call = <<>>
    /\ pc = "loop"

NextGroup == SortIds \/ GroupStep \/ CollectGroups \/ SelectKeys

SpecGroup == InitGroup /\ [][NextGroup]_vars

\* ------------------------------- classification on arbitrary knick arrays
MaxKeyN == 5

RECURSIVE Ascending(_)
Ascending(S) ==
    IF S = {} THEN <<>>
    ELSE LET m == CHOOSE a \in S : \A b \in S : a <= b
         IN  <<m>> \o Ascending(S \ {m})

\* MkProfile with sample dup + 1 at the position of sample dup (dup = 0: no
\* two samples at the same position)
MkProfileAt(n, depth, dup) ==
    [k \in 1..n |->
        [id |-> k, x |-> IF dup # 0 /\ k > dup THEN k - 2 ELSE k - 1,
         y |-> 0, depth |-> depth[k]]]

KeyProfiles ==
    UNION {{MkProfileAt(n, d, dup) : d \in [1..n -> Depths], dup \in 0..(n - 1)}
           : n \in 2..MaxKeyN}

\* the stages after detection entered with any profile and any set of its
\* interior labels as knick points; with gap 1 every knick point is a group
\* of its own, so every such set is kept as the simplified profile
InitKeys ==
    /\ ToolIdle
    /\ profileDF \in KeyProfiles
    /\ gap = 1
    /\ idArr2 \in {Ascending(S) : S \in SUBSET {profileDF[k].id : k \in 2..(Len(profileDF) - 1)}}
    /\ idArr1 = idArr2
    /\ profileDF_copy = <<>>
    /\ diffSlope_95 = NaN
    /\ rounds = <<>>
    /\ idArray = <<>>
    /\ idList = <<>>
    /\ i = 0
    /\ idGroups = <<>>
    /\ z2 = <<>>
    /\ profileDF1 = <<>>
    /\ attributes = <<>>
    /\ call = <<>>
    /\ pc = "loop"

NextKeys ==
    \/ SortIds \/ GroupStep \/ CollectGroups \/ SelectKeys
    \/ ClassifyHigh \/ ClassifyLow

SpecKeys == InitKeys /\ [][NextKeys]_vars

\* ------------------------------------------- the primitives called alone
MaxSlopeTenths == 900

\* slopeClass on every angle from 0 in steps of a tenth of a degree, and
\* calculateSlope on every pair of elevations and every distance
Calls ==
    {[function |-> "slopeClass", args |-> <<a * MilliPerDegree, 10>>]
        : a \in 0..MaxSlopeTenths}
    \cup {[function |-> "calculateSlope", args |-> <<e1, e2, d>>]
             : e1 \in (0 - MaxDepth)..MaxDepth, e2 \in (0 - MaxDepth)..MaxDepth,
               d \in 0..MaxN}

InitCall ==
    /\ ToolIdle
    /\ call \in Calls
    /\ profileDF = <<>>
    /\ gap = 0
    /\ profileDF_copy = <<>>
    /\ idArr1 = <<>>
    /\ idArr2 = <<>>
    /\ diffSlope_95 = NaN
    /\ rounds = <<>>
    /\ idArray = <<>>
    /\ idList = <<>>
    /\ i = 0
    /\ idGroups = <<>>
    /\ z2 = <<>>
    /\ profileDF1 = <<>>
    /\ attributes = <<>>
    /\ pc = "call"

CallSlopeClass ==
    /\ pc = "call"
    /\ call.function = "slopeClass"
    /\ attributes' = slopeClass(call.args)
    /\ pc' = "returned"
    /\ UNCHANGED toolVars
    /\ UNCHANGED <<call, profileDF, gap, profileDF_copy, idArr1, idArr2, diffSlope_95,
                   rounds, idArray, idList, i, idGroups, z2, profileDF1>>

CallCalculateSlope ==
    /\ pc = "call"
    /\ call.function = "calculateSlope"
    /\ attributes' = calculateSlope(call.args[1], call.args[2], call.args[3])
    /\ pc' = "returned"
    /\ UNCHANGED toolVars
    /\ UNCHANGED <<call, profileDF, gap, profileDF_copy, idArr1, idArr2, diffSlope_95,
                   rounds, idArray, idList, i, idGroups, z2, profileDF1>>

NextCall == CallSlopeClass \/ CallCalculateSlope

SpecCall == InitCall /\ [][NextCall]_vars

\* ------------------------------------ both functions on the same profile
\* the profiles of Init whose labels start at 1
InitBoth ==
    /\ Init
    /\ profileDF[1].id = 1

\* the function has returned; the same profile and gap are passed to a
\* second call, whose locals start afresh
CallOther ==
    /\ pc = "returned"
    /\ previous = <<>>
    /\ previous' = [function |-> call.function, idArr2 |-> idArr2, z2 |-> z2,
                    attributes |-> attributes]
    /\ profileDF_copy' = Ids(profileDF)
    /\ idArr1' = <<>>
    /\ idArr2' = <<>>
    /\ diffSlope_95' = NaN
    /\ rounds' = <<>>
    /\ idArray' = <<>>
    /\ idList' = <<>>
    /\ i' = 0
    /\ idGroups' = <<>>
    /\ z2' = <<>>
    /\ profileDF1' = <<>>
    /\ attributes' = <<>>
    /\ call' = <<>>
    /\ pc' = "start"
    /\ UNCHANGED <<profileDF, gap, split, batch, verify>>

NextBoth == Next \/ CallOther

SpecBoth == InitBoth /\ [][NextBoth]_vars

\* ------------------------------------------ splitFeat: subsets per worker
MaxFeat == 7
MaxSplit == 4

\* no call of the profile functions is in progress
ProfileIdle ==
    /\ profileDF = <<>>
    /\ gap = 0
    /\ profileDF_copy = <<>>
    /\ idArr1 = <<>>
    /\ idArr2 = <<>>
    /\ diffSlope_95 = NaN
    /\ rounds = <<>>
    /\ idArray = <<>>
    /\ idList = <<>>
    /\ i = 0
    /\ idGroups = <<>>
    /\ z2 = <<>>
    /\ profileDF1 = <<>>
    /\ attributes = <<>>
    /\ call = <<>>
    /\ pc = "idle"

\* arcpy.analysis.Select with the where clause
\* (OBJECTID > startID) And (OBJECTID <= endID) on OBJECTIDs 1..noFeat
Select(noFeat, startID, endID) ==
    {oid \in 1..noFeat : oid > startID /\ oid <= endID}

\* splitFeat(workspace, inFeat, inBathy, noSplit) entered: workspace is
\* path/base.gdb; created holds the geodatabases and folders made so far
InitSplit ==
    /\ ProfileIdle
    /\ previous = <<>>
    /\ batch = <<>>
    /\ verify = <<>>
    /\ \E noFeat \in 0..MaxFeat, noSplit \in 1..MaxSplit :
          split = [pc |-> "loop", noFeat |-> noFeat, noSplit |-> noSplit,
                   featCount |-> noFeat \div noSplit,
                   path |-> "path", baseName |-> "base",
                   inBathy |-> "bathy", inFeat |-> "feat",
                   i |-> 1, featList |-> <<>>, bathyList |-> <<>>,
                   tempfolderList |-> <<>>, created |-> {}, subsets |-> <<>>]

\* faulty variant of SplitIteration: the last subset ends at i*featCount too
SplitIteration_EqualShares ==
    /\ split # <<>>
    /\ split.pc = "loop"
    /\ split.i <= split.noSplit
    /\ LET gdbName == split.baseName \o ToString(split.i) \o ".gdb"
           data1 == split.path \o "/" \o gdbName \o "/" \o split.inBathy
           startID == (split.i - 1) * split.featCount
           endID == split.i * split.featCount
           outFeat == split.path \o "/" \o gdbName \o "/" \o split.inFeat
                         \o "_" \o ToString(split.i)
           tempFolder == split.path \o "/" \o "temp" \o ToString(split.i)
       IN  split' = [split EXCEPT
                        !.bathyList = Append(@, data1),
                        !.featList = Append(@, outFeat),
                        !.tempfolderList = Append(@, tempFolder),
                        !.created = @ \cup {split.path \o "/" \o gdbName, tempFolder},
                        !.subsets = Append(@, [gdb |-> split.path \o "/" \o gdbName,
                                               features |-> Select(split.noFeat, startID, endID)]),
                        !.i = @ + 1]
    /\ UNCHANGED <<profileVars, previous, batch, verify>>

\* one pass of the while loop of splitFeat: geodatabase i, the copy of the
\* bathymetry grid, the subset of features, the temp folder
SplitIteration ==
    /\ split # <<>>
    /\ split.pc = "loop"
    /\ split.i <= split.noSplit
    /\ LET gdbName == split.baseName \o ToString(split.i) \o ".gdb"
           data1 == split.path \o "/" \o gdbName \o "/" \o split.inBathy
           startID == (split.i - 1) * split.featCount
           endID == IF split.i = split.noSplit THEN split.noFeat
                    ELSE split.i * split.featCount
           outFeat == split.path \o "/" \o gdbName \o "/" \o split.inFeat
                         \o "_" \o ToString(split.i)
           tempFolder == split.path \o "/" \o "temp" \o ToString(split.i)
       IN  split' = [split EXCEPT
                        !.bathyList = Append(@, data1),
                        !.featList = Append(@, outFeat),
                        !.tempfolderList = Append(@, tempFolder),
                        !.created = @ \cup {split.path \o "/" \o gdbName, tempFolder},
                        !.subsets = Append(@, [gdb |-> split.path \o "/" \o gdbName,
                                               features |-> Select(split.noFeat, startID, endID)]),
                        !.i = @ + 1]
    /\ UNCHANGED <<profileVars, previous, batch, verify>>

\* return featList, bathyList, tempfolderList
SplitReturn ==
    /\ split # <<>>
    /\ split.pc = "loop"
    /\ split.i > split.noSplit
    /\ split' = [split EXCEPT !.pc = "returned"]
    /\ UNCHANGED <<profileVars, previous, batch, verify>>

NextSplit == SplitIteration \/ SplitReturn

SpecSplit == InitSplit /\ [][NextSplit]_vars

\* -------------------------------- verifyDepression: one feature's loop
MaxContour == 3
MaxArea == 2

\* the threshold ratios tried, as fractions <<numerator, denominator>>
AreaRatios == {<<1, 2>>, <<1, 1>>}

\* what one contour level adds to arr: the area of the dissolved clipped
\* polygon, or NaN when no polygon of that level touches the feature
LevelAreas == (1..MaxArea) \cup {NaN}

\* faulty variant of NanMax: np.max, which is NaN when any entry is NaN
NanMax_Propagates(arr) ==
    IF \E k \in 1..Len(arr) : arr[k] = NaN THEN NaN
    ELSE SeqMax(arr)

\* np.nanmax: the largest entry that is not NaN, NaN when there is none
NanMax(arr) ==
    LET S == {arr[k] : k \in 1..Len(arr)} \ {NaN}
    IN  IF S = {} THEN NaN
        ELSE CHOOSE a \in S : \A b \in S : a >= b

\* the row of one original Depression feature is taken from the cursor
InitVerify ==
    /\ ProfileIdle
    /\ previous = <<>>
    /\ split = <<>>
    /\ batch = <<>>
    /\ \E maxContour \in 0..MaxContour, featArea \in 1..MaxArea,
          areaRatioT \in AreaRatios :
          verify = [pc |-> "loop", maxContour |-> maxContour,
                    featArea |-> featArea, areaRatioT |-> areaRatioT,
                    j |-> 1, classV |-> "unclassified", arr |-> <<>>,
                    contourArea |-> <<>>,
                    Morphology_feature |-> "Depression"]

\* one pass of while j < (maxContour + 1): the areas of the j contour
\* levels, their nanmax and the test against featArea * areaRatioT;
\* contourArea collects the value of every pass
VerifyIteration ==
    /\ verify # <<>>
    /\ verify.pc = "loop"
    /\ verify.j < verify.maxContour + 1
    /\ \E arr \in [1..verify.j -> LevelAreas] :
          LET contourArea == NanMax(arr)
          IN  IF /\ contourArea # NaN
                 /\ contourArea * verify.areaRatioT[2]
                       >= verify.featArea * verify.areaRatioT[1]
              THEN verify' = [verify EXCEPT
                                 !.arr = arr,
                                 !.contourArea = Append(@, contourArea),
                                 !.classV = "Depression",
                                 !.pc = "break"]
              ELSE verify' = [verify EXCEPT
                                 !.arr = arr,
                                 !.contourArea = Append(@, contourArea),
                                 !.j = @ + 1]
    /\ UNCHANGED <<profileVars, previous, split, batch>>

\* after the loop: a feature still unclassified gets its row updated
VerifyUpdate ==
    /\ verify # <<>>
    /\ \/ verify.pc = "break"
       \/ verify.pc = "loop" /\ ~(verify.j < verify.maxContour + 1)
    /\ verify' = [verify EXCEPT
                     !.Morphology_feature =
                        IF verify.classV = "unclassified" THEN "unclassified" ELSE @,
                     !.pc = "verified"]
    /\ UNCHANGED <<profileVars, previous, split, batch>>

NextVerify == VerifyIteration \/ VerifyUpdate

SpecVerify == InitVerify /\ [][NextVerify]_vars

\* ------------------------- calculateProfileBH: the loop over the features
MaxBatch == 3
CompactEvery == 100

fieldList ==
    <<"profileShape", "profileSymmetry", "profileConcavity",
      "profile_top_SlopeClass", "profile_side_SlopeClass",
      "profile_top_Depth", "profileRelief", "profileLength">>

\* the first n fields of fieldList
Fields(n) == {fieldList[j] : j \in 1..n}

\* how the try block of one feature ends: without error, or with an error
\* raised by the named statement; n counts the fields the AddField loop
\* (step AddField) or the CalculateField loop (other steps) has completed
Outcomes ==
    {[step |-> "ok", n |-> Len(fieldList)],
     [step |-> "getValue", n |-> 0],
     [step |-> "Select_analysis", n |-> 0],
     [step |-> "profile", n |-> 0],
     [step |-> "deleteDataItems", n |-> Len(fieldList)]}
    \cup {[step |-> "AddField", n |-> n] : n \in 0..(Len(fieldList) - 1)}
    \cup {[step |-> "CalculateField", n |-> n] : n \in 0..(Len(fieldList) - 1)}

\* the feature class inFeat_<featID> as the try block leaves it
FeatureClass(outcome) ==
    [added |-> IF outcome.step = "profile" THEN {}
               ELSE IF outcome.step = "AddField" THEN Fields(outcome.n)
               ELSE Fields(Len(fieldList)),
     calculated |-> IF outcome.step \in {"profile", "AddField"} THEN {}
                    ELSE Fields(outcome.n)]

\* calculateProfileBH before the loop: the cursor over the features of
\* inFeatClass (featID 1..n), whose profile fields have been deleted
InitBatch ==
    /\ ProfileIdle
    /\ previous = <<>>
    /\ split = <<>>
    /\ verify = <<>>
    /\ \E n \in 1..MaxBatch :
          batch = [pc |-> "loop", cursor |-> [j \in 1..n |-> j], row |-> 0,
                   k |-> 1, featID |-> 0, mergeList |-> <<>>,
                   messages |-> <<>>, compacted |-> <<>>, raised |-> {},
                   workspace |-> <<>>, mergedFeat |-> <<>>,
                   inFeatClass |-> [j \in 1..n |-> {}]]

\* faulty variant of ProcessFeature: the handler leaves the loop
ProcessFeature_Break ==
    /\ batch # <<>>
    /\ batch.pc = "loop"
    /\ batch.row < Len(batch.cursor)
    /\ \E outcome \in Outcomes :
          LET row == batch.row + 1
              featID == batch.cursor[row]
              compact == batch.k % CompactEvery = 1
              ok == outcome.step = "ok"
              created == outcome.step \notin {"getValue", "Select_analysis"}
              said == (IF compact THEN <<<<"Compacted the geodatabase", 0>>>> ELSE <<>>)
                         \o <<<<"working on feature: ", featID>>>>
                         \o (IF ok THEN <<>> ELSE <<<<"failed on ", featID>>>>)
          IN  batch' = [batch EXCEPT
                           !.row = IF ok THEN row ELSE Len(batch.cursor),
                           !.featID = featID,
                           !.compacted = IF compact THEN Append(@, row) ELSE @,
                           !.messages = @ \o said,
                           !.mergeList = IF outcome.step = "getValue" THEN @
                                         ELSE Append(@, featID),
                           !.workspace = IF created
                                         THEN Append(@, [featID |-> featID,
                                                         class |-> FeatureClass(outcome)])
                                         ELSE @,
                           !.raised = IF ok THEN @ ELSE @ \cup {featID},
                           !.k = IF ok THEN @ + 1 ELSE @]
    /\ UNCHANGED <<profileVars, previous, split, verify>>

\* one pass of for row in cursor: the compaction test, the try block with
\* the outcome chosen, and either k += 1 or the handler's message and
\* continue; compacted collects the passes that compacted, raised the
\* features whose try block raised an error
ProcessFeature ==
    /\ batch # <<>>
    /\ batch.pc = "loop"
    /\ batch.row < Len(batch.cursor)
    /\ \E outcome \in Outcomes :
          LET row == batch.row + 1
              featID == batch.cursor[row]
              compact == batch.k % CompactEvery = 1
              ok == outcome.step = "ok"
              created == outcome.step \notin {"getValue", "Select_analysis"}
              said == (IF compact THEN <<<<"Compacted the geodatabase", 0>>>> ELSE <<>>)
                         \o <<<<"working on feature: ", featID>>>>
                         \o (IF ok THEN <<>> ELSE <<<<"failed on ", featID>>>>)
          IN  batch' = [batch EXCEPT
                           !.row = row,
                           !.featID = featID,
                           !.compacted = IF compact THEN Append(@, row) ELSE @,
                           !.messages = @ \o said,
                           !.mergeList = IF outcome.step = "getValue" THEN @
                                         ELSE Append(@, featID),
                           !.workspace = IF created
                                         THEN Append(@, [featID |-> featID,
                                                         class |-> FeatureClass(outcome)])
                                         ELSE @,
                           !.raised = IF ok THEN @ ELSE @ \cup {featID},
                           !.k = IF ok THEN @ + 1 ELSE @]
    /\ UNCHANGED <<profileVars, previous, split, verify>>

\* the feature classes of the workspace with the given featID
ClassesOf(workspace, featID) ==
    {workspace[j].class : j \in {a \in 1..Len(workspace) : workspace[a].featID = featID}}

\* arcpy.Merge_management(mergeList, mergedFeat) after the loop: the rows of
\* the listed classes; the tool fails on an empty list and on a class that
\* was never created
Merge ==
    /\ batch # <<>>
    /\ batch.pc = "loop"
    /\ batch.row = Len(batch.cursor)
    /\ IF /\ batch.mergeList # <<>>
          /\ \A j \in 1..Len(batch.mergeList) :
                ClassesOf(batch.workspace, batch.mergeList[j]) # {}
       THEN batch' = [batch EXCEPT
                         !.pc = "merged",
                         !.mergedFeat =
                            [j \in 1..Len(batch.mergeList) |->
                               [featID |-> batch.mergeList[j],
                                class |-> CHOOSE c \in ClassesOf(batch.workspace,
                                                                 batch.mergeList[j]) : TRUE]]]
       ELSE batch' = [batch EXCEPT !.pc = "aborted"]
    /\ UNCHANGED <<profileVars, previous, split, verify>>

\* the fields of mergedFeat: every field of an input class
MergedFields(mergedFeat) ==
    UNION {mergedFeat[j].class.added : j \in 1..Len(mergedFeat)}

\* HelperFunctions.addTextField for every field of fieldList: the join on
\* featID keeps all rows of inFeatClass and the field takes the value of the
\* joined row of mergedFeat (none for a row without a value); a field that
\* mergedFeat does not have stops the loop with an error
Transfer ==
    /\ batch # <<>>
    /\ batch.pc = "merged"
    /\ LET fields == MergedFields(batch.mergedFeat)
           Value(featID) ==
              UNION {batch.mergedFeat[j].class.calculated
                        : j \in {a \in 1..Len(batch.mergedFeat)
                                    : batch.mergedFeat[a].featID = featID}}
       IN  batch' = [batch EXCEPT
                        !.pc = IF fields = Fields(Len(fieldList))
                               THEN "done" ELSE "aborted",
                        !.inFeatClass =
                           [j \in DOMAIN batch.inFeatClass |->
                              Value(batch.cursor[j]) \cap fields]]
    /\ UNCHANGED <<profileVars, previous, split, verify>>

NextBatch == ProcessFeature \/ Merge \/ Transfer

SpecBatch == InitBatch /\ [][NextBatch]_vars

\* ------------------------------------------------------------- properties
FirstId == profileDF[1].id
LastId == profileDF[Len(profileDF)].id
LastRound == rounds[Len(rounds)]
DiffValues(r) == [k \in 1..Len(r.diffSlope) |-> r.diffSlope[k][2]]
AllNaN(r) == \A k \in 1..Len(r.diffSlope) : r.diffSlope[k][2] = NaN
Detecting == pc = "start" \/ pc = "loop"

\* C1: detection terminates within N rounds: the number of rounds run never
\* exceeds the number of samples (and is still below it whenever the loop is
\* about to run another round), every round selects a set of >= 0 samples,
\* and the working set a round leaves is never larger than the one it got.
C1_DetectionBounded ==
    /\ Len(rounds) <= Len(profileDF)
    /\ (pc = "loop" /\ Len(idArr2) > Len(idArr1)) => Len(rounds) < Len(profileDF)
    /\ \A k \in 1..Len(rounds) :
          /\ Cardinality(rounds[k].selectedID) >= 0
          /\ Len(rounds[k].left) <= Len(rounds[k].work)
          /\ SeqSet(rounds[k].left) \subseteq SeqSet(rounds[k].work)
    /\ (~Detecting) => Len(rounds) >= 1

C1_Witness == pc = "done" /\ Len(rounds) = 3 /\ Len(profileDF) = MaxN

\* C2: after every round both endpoint samples of the profile are still
\* members of the working set.
C2_EndpointsStay ==
    Len(rounds) >= 1 => {FirstId, LastId} \subseteq SeqSet(profileDF_copy)

C4_ThresholdFromPreviousRound ==
    \A k \in 1..(Len(rounds) - 1) :
       rounds[k + 1].slopeThreshold = rounds[k].diffSlope_95

\* C4 (amended): the threshold of every round after the first is the 95th
\* percentile of the diffSlope values of round 1.
C4_ThresholdFromFirstRound ==
    \A k \in 2..Len(rounds) :
       rounds[k].slopeThreshold = rounds[1].diffSlope_95

C4_Witness ==
    /\ Len(rounds) >= 3
    /\ rounds[2].diffSlope_95 # rounds[1].diffSlope_95
    /\ rounds[3].slopeThreshold = rounds[1].diffSlope_95

\* C5: after every round a sample is absent from the working set iff its
\* label is in the accumulated id array.
C5_RemovedIffSelected ==
    Len(rounds) >= 1 =>
       \A id \in IdSet(profileDF) :
          id \notin SeqSet(profileDF_copy) <=> id \in SeqSet(idArr2)

\* C6 (as claimed): a round after the first is run only if the previous
\* round selected something and the working set still holds a sample other
\* than the two endpoints.
C6_StopsAtEndpointsOrEmptyRound ==
    \A k \in 2..Len(rounds) :
       /\ rounds[k - 1].selectedID # {}
       /\ ~(SeqSet(rounds[k].work) \subseteq {FirstId, LastId})

\* C6 (amended): rounds are repeated until a round selects nothing, and only
\* then: every round that is followed by another selected something, a round
\* that selected something is followed by another whatever is left of the
\* working set, and detection is over only after a round that selected
\* nothing.
C6_StopsOnlyAtEmptyRound ==
    /\ \A k \in 1..(Len(rounds) - 1) : rounds[k].selectedID # {}
    /\ (pc = "loop" /\ LastRound.selectedID # {}) => Len(idArr2) > Len(idArr1)
    /\ (Len(rounds) >= 1 /\ ~Detecting) => LastRound.selectedID = {}

C6_Witness ==
    /\ pc = "done"
    /\ Len(rounds) >= 2
    /\ SeqSet(LastRound.work) \subseteq {FirstId, LastId}

\* C7: a round whose diffSlope values are all NaN (at most two samples left)
\* selects nothing, is the last round, and leaves the id array accumulated
\* by the earlier rounds as the result.
C7_AllNaNRoundExits ==
    \A k \in 1..Len(rounds) :
       /\ AllNaN(rounds[k]) <=> Len(rounds[k].work) <= 2
       /\ AllNaN(rounds[k]) =>
             /\ rounds[k].selectedID = {}
             /\ rounds[k].idArr_new = rounds[k].idArr
             /\ k = Len(rounds)
             /\ idArr2 = rounds[k].idArr
             /\ ~(pc = "loop" /\ Len(idArr2) > Len(idArr1))

C7_Witness ==
    /\ pc = "done"
    /\ Len(rounds) >= 2
    /\ AllNaN(LastRound)
    /\ Len(idArr2) >= 1
    /\ idArr2 = rounds[Len(rounds) - 1].idArr_new

RECURSIVE Flatten(_)
Flatten(groups) ==
    IF groups = <<>> THEN <<>> ELSE Head(groups) \o Flatten(Tail(groups))

Sorted(s) == SortSeq(s, LAMBDA a, b : a < b)
Grouped == pc = "select" \/ pc = "done"

\* C8: the groups found are non-empty and their concatenation, in order, is
\* the sorted id array: while the groups are being found the groups so far
\* followed by the ids not yet grouped make up the sorted array, and at the
\* end no id is left ungrouped.
C8_GroupsPartition ==
    /\ pc = "group" => Flatten(ListEntries(idList)) \o idArray = Sorted(idArr2)
    /\ Grouped =>
          /\ Flatten(idGroups) = Sorted(idArr2)
          /\ idArray = <<>>
          /\ \A g \in 1..Len(idGroups) : idGroups[g] # <<>>

C8_Witness ==
    /\ pc = "done"
    /\ Len(idGroups) >= 2
    /\ \E g \in 1..Len(idGroups) : Len(idGroups[g]) >= 2
    /\ idArr2 # Sorted(idArr2)

\* C9: the groups are maximal runs: consecutive ids of a group are less than
\* gap apart, and the first id of a group is at least gap away from the last
\* id of the group before it.
C9_MaximalRuns ==
    Grouped =>
       /\ \A g \in 1..Len(idGroups) :
             \A k \in 1..(Len(idGroups[g]) - 1) :
                idGroups[g][k + 1] - idGroups[g][k] < gap
       /\ \A g \in 1..(Len(idGroups) - 1) :
             idGroups[g + 1][1] - idGroups[g][Len(idGroups[g])] >= gap

C9_Witness ==
    /\ pc = "done"
    /\ \E g \in 1..Len(idGroups) :
          \E k \in 1..(Len(idGroups[g]) - 1) :
             idGroups[g][k + 1] - idGroups[g][k] = gap - 1
    /\ \E g \in 1..(Len(idGroups) - 1) :
          idGroups[g + 1][1] - idGroups[g][Len(idGroups[g])] = gap

\* a group lies nearer the start (end) of the profile when each of its ids
\* is closer to the first (last) sample than to the other end
NearerStart(idGroup) ==
    \A k \in 1..Len(idGroup) : idGroup[k] - FirstId < LastId - idGroup[k]
NearerEnd(idGroup) ==
    \A k \in 1..Len(idGroup) : idGroup[k] - FirstId > LastId - idGroup[k]

\* C10: the knick point kept for a group is the first id of the group when
\* the group lies nearer the start of the profile and the last id of the
\* group when it lies nearer the end.
C10_RepresentativeNearestEnd ==
    pc = "done" =>
       \A g \in 1..Len(idGroups) :
          /\ NearerStart(idGroups[g]) => z2[g + 1] = idGroups[g][1]
          /\ NearerEnd(idGroups[g]) => z2[g + 1] = idGroups[g][Len(idGroups[g])]
\* C11: the knick point kept for a group is a member of the group with the
\* least score |(profileLength - p) - (p - 1)|, profileLength the number of
\* samples of the profile, and no member before it in the group (none with
\* a smaller label) has that least score.
C11_RepresentativeMinimisesScore ==
    pc = "done" =>
       \A g \in 1..Len(idGroups) :
          \E k \in 1..Len(idGroups[g]) :
             /\ z2[g + 1] = idGroups[g][k]
             /\ \A j \in 1..Len(idGroups[g]) :
                   /\ Abs((Len(profileDF) - idGroups[g][j]) - (idGroups[g][j] - 1))
                         >= Abs((Len(profileDF) - z2[g + 1]) - (z2[g + 1] - 1))
                   /\ (j < k \/ idGroups[g][j] < z2[g + 1]) =>
                         Abs((Len(profileDF) - idGroups[g][j]) - (idGroups[g][j] - 1))
                            > Abs((Len(profileDF) - z2[g + 1]) - (z2[g + 1] - 1))

C11_Witness ==
    /\ pc = "done"
    /\ \E g \in 1..Len(idGroups) :
          \E j, k \in 1..Len(idGroups[g]) :
             /\ j < k
             /\ z2[g + 1] = idGroups[g][j]
             /\ Score(idGroups[g][j], Len(profileDF)) = Score(idGroups[g][k], Len(profileDF))
\* C12: the simplified profile is the first sample of the profile, then one
\* member of each knick group, group by group and in ascending order, then
\* the last sample; its size is the number of groups plus 2, at least 2.
C12_SimplifiedProfile ==
    pc = "done" =>
       /\ Len(z2) = Len(idGroups) + 2
       /\ Len(z2) >= 2
       /\ z2[1] = FirstId
       /\ z2[Len(z2)] = LastId
       /\ \A g \in 1..Len(idGroups) : z2[g + 1] \in SeqSet(idGroups[g])
       /\ \A g \in 1..(Len(idGroups) - 1) : z2[g + 1] < z2[g + 2]

C12_Witness ==
    /\ pc = "done"
    /\ Len(z2) >= 4
    /\ idArr2 # Sorted(idArr2)
    /\ \E g \in 1..Len(idGroups) : Len(idGroups[g]) >= 2
Returned(f) == pc = "returned" /\ call.function = f
Classified ==
    \/ Returned("calculate_profile_attributes_high")
    \/ Returned("calculate_profile_attributes_low")
FullDepths == Column(profileDF, "depth")

\* C13: when the simplified profile has two samples the attributes returned
\* are shape Flat, symmetry NA, extreme slope class flat, concavity NA, side
\* slope class NA, and NA for the extreme depth, the relief and the length,
\* whatever the depths of the profile.
C13_FlatAttributes ==
    (Classified /\ Len(profileDF1) = 2) =>
       attributes = [shape |-> "Flat", symmetry |-> "NA", concave |-> "NA",
                     extremeSlopeClass |-> "flat", sideSlopeClass |-> "NA",
                     extremeDepth |-> "NA", height |-> "NA", length |-> "NA"]

C13_Witness ==
    /\ Classified
    /\ Len(profileDF1) = 2
    /\ Len(profileDF) >= 3
    /\ SeqMax(FullDepths) # SeqMin(FullDepths)
    /\ AbsBelow(skew(FullDepths), 1, 5)

\* the class of the angle num / den milli-degrees, from the class limits
ClassOf(num, den) ==
    IF num < 5 * MilliPerDegree * den THEN "flat"
    ELSE IF num < 10 * MilliPerDegree * den THEN "gentle"
    ELSE IF num < 30 * MilliPerDegree * den THEN "moderate"
    ELSE "steep"

TriangleNames ==
    /\ attributes.shape = "Triangle"
    /\ attributes.concave = "Convex"
    /\ Returned("calculate_profile_attributes_high")
          => attributes.extremeSlopeClass = "no top"
    /\ Returned("calculate_profile_attributes_low")
          => attributes.extremeSlopeClass = "no bottom"

\* C14 (as claimed): when the simplified profile has three samples the shape
\* is Triangle, the concavity Convex, the extreme slope class "no top" (high)
\* or "no bottom" (low), and the side slope class is the class of the
\* average of the slopes of segments 0 and 1 weighted by their lengths.
C14_SideSlopeLengthWeighted ==
    (Classified /\ Len(profileDF1) = 3) =>
       /\ TriangleNames
       /\ attributes.sideSlopeClass =
             ClassOf(profileDF1[1].slope * profileDF1[1].dist
                        + profileDF1[2].slope * profileDF1[2].dist,
                     profileDF1[1].dist + profileDF1[2].dist)

\* C14 (amended): as above, but the average of the two slopes is weighted
\* by the segment lengths only when both lengths are non-zero; when either
\* segment has length 0 it is the plain mean of the two slopes.
C14_SideSlopeWeightedOrPlain ==
    (Classified /\ Len(profileDF1) = 3) =>
       /\ TriangleNames
       /\ (profileDF1[1].dist # 0 /\ profileDF1[2].dist # 0) =>
             attributes.sideSlopeClass =
                ClassOf(profileDF1[1].slope * profileDF1[1].dist
                           + profileDF1[2].slope * profileDF1[2].dist,
                        profileDF1[1].dist + profileDF1[2].dist)
       /\ (profileDF1[1].dist = 0 \/ profileDF1[2].dist = 0) =>
             attributes.sideSlopeClass =
                ClassOf(profileDF1[1].slope + profileDF1[2].slope, 2)

C14_Witness ==
    /\ Classified
    /\ Len(profileDF1) = 3
    /\ profileDF1[1].dist = 0
    /\ profileDF1[2].dist # 0
    /\ attributes.sideSlopeClass = "steep"
    /\ ClassOf(profileDF1[2].slope, 1) = "moderate"

\* C15: when the simplified profile has four samples or more the concavity
\* is Concave and the shape Irregular if some polygon angle is above 180
\* degrees, and the concavity is Convex and the shape Regular otherwise.
C15_ConcaveIffAngleAbove180 ==
    (Classified /\ Len(profileDF1) >= 4) =>
       IF \E k \in 1..Len(profileDF1) :
             profileDF1[k].polygonAngle > 180 * MilliPerDegree
       THEN attributes.concave = "Concave" /\ attributes.shape = "Irregular"
       ELSE attributes.concave = "Convex" /\ attributes.shape = "Regular"

C15_Witness ==
    /\ Classified
    /\ Len(profileDF1) >= 4
    /\ \E k \in 1..Len(profileDF1) :
          profileDF1[k].polygonAngle = 180 * MilliPerDegree
    /\ attributes.shape = "Regular"

\* C16: when the simplified profile has s >= 4 samples the extreme slope
\* class is the class of the mean of the slopes of segments 1 .. s-3 (rows
\* 2 .. s-2), a set that is never empty.
C16_ExtremeSlopeIsInteriorMean ==
    (Classified /\ Len(profileDF1) >= 4) =>
       LET s == Len(profileDF1)
           interior == [k \in 1..(s - 3) |-> profileDF1[k + 1].slope]
       IN  /\ Len(interior) >= 1
           /\ attributes.extremeSlopeClass = ClassOf(SumSeq(interior), Len(interior))

C16_Witness ==
    /\ Classified
    /\ Len(profileDF1) >= 5
    /\ profileDF1[2].slope # profileDF1[3].slope
    /\ attributes.extremeSlopeClass # ClassOf(profileDF1[2].slope, 1)
    /\ attributes.extremeSlopeClass # ClassOf(profileDF1[3].slope, 1)

\* C17: slopeClass gives flat below 5 degrees, gentle from 5 to below 10,
\* moderate from 10 to below 30 and steep from 30 on; every angle gets
\* exactly one of the four classes.
C17_SlopeClassBoundaries ==
    Returned("slopeClass") =>
       LET num == call.args[1]
           den == call.args[2]
       IN  /\ attributes \in {"flat", "gentle", "moderate", "steep"}
           /\ attributes = "flat" <=> num < 5 * MilliPerDegree * den
           /\ attributes = "gentle" <=>
                 (5 * MilliPerDegree * den <= num /\ num < 10 * MilliPerDegree * den)
           /\ attributes = "moderate" <=>
                 (10 * MilliPerDegree * den <= num /\ num < 30 * MilliPerDegree * den)
           /\ attributes = "steep" <=> 30 * MilliPerDegree * den <= num

C17_Witness ==
    /\ Returned("slopeClass")
    /\ call.args[1] = 30 * MilliPerDegree * call.args[2]
    /\ attributes = "steep"

C19_ExtremeDepthSigned ==
    (Classified /\ Len(profileDF1) >= 3) =>
       /\ Returned("calculate_profile_attributes_high")
             => attributes.extremeDepth = ToString(SeqMax(FullDepths))
       /\ Returned("calculate_profile_attributes_low")
             => attributes.extremeDepth = ToString(SeqMin(FullDepths))

\* C19 (amended): the extreme depth returned is the absolute value of the
\* maximum depth of the full profile (high) or of its minimum depth (low);
\* the sign of the depth is dropped.
C19_ExtremeDepthAbsolute ==
    (Classified /\ Len(profileDF1) >= 3) =>
       /\ Returned("calculate_profile_attributes_high")
             => attributes.extremeDepth = ToString(Abs(SeqMax(FullDepths)))
       /\ Returned("calculate_profile_attributes_low")
             => attributes.extremeDepth = ToString(Abs(SeqMin(FullDepths)))

C19_Witness ==
    /\ Returned("calculate_profile_attributes_low")
    /\ Len(profileDF1) >= 3
    /\ SeqMin(FullDepths) < 0
    /\ attributes.extremeDepth = ToString(0 - SeqMin(FullDepths))

\* C20: calculateSlope returns 90 degrees whenever the distance is 0,
\* whatever the two elevations (the quotient is not taken), and for a
\* non-zero distance the sign of the result is the sign of e1 - e2.
C20_SlopeSaturatesAndKeepsSign ==
    Returned("calculateSlope") =>
       LET e1 == call.args[1]
           e2 == call.args[2]
           d == call.args[3]
       IN  /\ d = 0 => attributes = 90 * MilliPerDegree
           /\ d # 0 =>
                 /\ attributes > 0 <=> e1 > e2
                 /\ attributes < 0 <=> e1 < e2
                 /\ attributes = 0 <=> e1 = e2

C20_Witness ==
    /\ Returned("calculateSlope")
    /\ call.args[3] = 0
    /\ call.args[1] < call.args[2]
    /\ attributes = 90 * MilliPerDegree

FlatProfile == \A k \in 1..Len(profileDF) : profileDF[k].depth = profileDF[1].depth

\* C21: on a profile whose depths are all equal (samples at distinct
\* positions) every diffSlope is 0 or NaN, no round selects a knick point,
\* the simplified profile is the two endpoints and the shape returned is
\* Flat.
C21_FlatProfileIsFlat ==
    (FlatProfile /\ Len(profileDF) >= 2) =>
       /\ \A k \in 1..Len(rounds) :
             /\ rounds[k].selectedID = {}
             /\ \A j \in 1..Len(rounds[k].diffSlope) :
                   rounds[k].diffSlope[j][2] \in {0, NaN}
       /\ idArr2 = <<>>
       /\ (pc = "done" \/ Classified) => z2 = <<FirstId, LastId>>
       /\ Classified => (Len(profileDF1) = 2 /\ attributes.shape = "Flat")

C21_Witness ==
    /\ Classified
    /\ FlatProfile
    /\ Len(profileDF) = MaxN
    /\ profileDF[1].depth # 0
    /\ Len(rounds) = 1
    /\ attributes.shape = "Flat"

\* the row after row k on the ring of the simplified profile
RingNext(k) == IF k = Len(profileDF1) THEN 1 ELSE k + 1

\* C25: profileSlope gives one distance and one slope per sample of the
\* simplified profile: entry k belongs to the segment from sample k to the
\* next sample, the last entry to the segment from the last sample back to
\* the first; every slope lies in 0..90 degrees, is 90 on a segment of
\* length 0 and otherwise the absolute gradient of the segment.
C25_RingOfSegments ==
    Classified =>
       /\ Len(profileDF1) = Len(z2)
       /\ Len(profileDF1) >= 2
       /\ \A k \in 1..Len(profileDF1) :
             LET a == profileDF1[k]
                 b == profileDF1[RingNext(k)]
             IN  /\ a.id = z2[k]
                 /\ a.dist = Abs(b.x - a.x)
                 /\ a.slope >= 0
                 /\ a.slope <= 90 * MilliPerDegree
                 /\ a.dist = 0 => a.slope = 90 * MilliPerDegree
                 /\ a.dist # 0 => a.slope = ArctanTable[Abs(b.depth - a.depth) + 1][a.dist]

C25_Witness ==
    /\ Classified
    /\ Len(profileDF1) >= 4
    /\ \E k \in 1..Len(profileDF1) : profileDF1[k].dist = 0
    /\ profileDF1[Len(profileDF1)].slope # 0
    /\ profileDF1[Len(profileDF1)].slope # profileDF1[Len(profileDF1) - 1].slope

\* C28: every polygon angle is at most 180 degrees: the first and the last
\* lie in 0..90, every other one in 90..180; so no angle is above 180 and
\* the attributes returned are never Irregular or Concave.
C28_AnglesAtMost180 ==
    Classified =>
       /\ \A k \in 1..Len(profileDF1) :
             LET angle == profileDF1[k].polygonAngle
             IN  IF k = 1 \/ k = Len(profileDF1)
                 THEN angle >= 0 /\ angle <= 90 * MilliPerDegree
                 ELSE angle >= 90 * MilliPerDegree /\ angle <= 180 * MilliPerDegree
       /\ attributes.shape # "Irregular"
       /\ attributes.concave # "Concave"

C28_Witness ==
    /\ Classified
    /\ Len(profileDF1) >= 4
    /\ \E k \in 2..(Len(profileDF1) - 1) :
          profileDF1[k].polygonAngle = 90 * MilliPerDegree
    /\ \E k \in 2..(Len(profileDF1) - 1) :
          profileDF1[k].polygonAngle = 180 * MilliPerDegree
    /\ profileDF1[1].polygonAngle = 90 * MilliPerDegree
    /\ attributes.shape = "Regular"

\* the samples that left the working set of round k without being selected
DroppedIn(k) == (SeqSet(rounds[k].work) \ SeqSet(rounds[k].left)) \ rounds[k].selectedID

\* C29: after any number of rounds the knick array holds no sample twice and
\* never the first or the last sample of the profile; a sample that left the
\* working set without being selected is not selected in a later round; so
\* the labels (and positions) of the simplified profile strictly increase.
C29_KnickArrayDistinct ==
    /\ \A a, b \in 1..Len(idArr2) : a # b => idArr2[a] # idArr2[b]
    /\ FirstId \notin SeqSet(idArr2)
    /\ LastId \notin SeqSet(idArr2)
    /\ \A k \in 1..Len(rounds) :
          /\ rounds[k].selectedID \subseteq SeqSet(rounds[k].work)
          /\ k < Len(rounds) => rounds[k + 1].work = rounds[k].left
          /\ \A m \in (k + 1)..Len(rounds) :
                /\ DroppedIn(k) \cap rounds[m].selectedID = {}
                /\ rounds[k].selectedID \cap rounds[m].selectedID = {}
    /\ (pc = "done" \/ Classified) =>
          \A a \in 1..(Len(z2) - 1) : z2[a] < z2[a + 1]
    /\ Classified =>
          \A a \in 1..(Len(profileDF1) - 1) : profileDF1[a].x < profileDF1[a + 1].x

C29_Witness ==
    /\ Classified
    /\ Len(rounds) >= 3
    /\ Len(idArr2) >= 2
    /\ \E k \in 1..(Len(rounds) - 1) :
          /\ DroppedIn(k) # {}
          /\ rounds[k].selectedID # {}
          /\ rounds[k + 1].selectedID # {}
    /\ \E k \in 1..Len(rounds) : DroppedIn(k) \ {FirstId, LastId} # {}
    /\ Len(profileDF1) >= 3

\* both functions have returned for the same profile and gap
BothReturned ==
    /\ pc = "returned"
    /\ previous # <<>>
    /\ call.function # previous.function

HighResult ==
    IF call.function = "calculate_profile_attributes_high"
    THEN attributes ELSE previous.attributes

LowResult ==
    IF call.function = "calculate_profile_attributes_low"
    THEN attributes ELSE previous.attributes

Distinct(s) == \A a, b \in 1..Len(s) : a # b => s[a] # s[b]

\* C24: splitFeat returns one subset per worker; with OBJECTIDs 1..noFeat
\* the subsets are pairwise disjoint and cover every feature (also when
\* there are fewer features than workers), and every subset has its own
\* geodatabase holding its features and its copy of the bathymetry grid, and
\* its own temp folder.
C24_ExclusiveSubsets ==
    (split # <<>> /\ split.pc = "returned") =>
       /\ Len(split.subsets) = split.noSplit
       /\ Len(split.featList) = split.noSplit
       /\ Len(split.bathyList) = split.noSplit
       /\ Len(split.tempfolderList) = split.noSplit
       /\ \A a, b \in 1..split.noSplit :
             a # b => split.subsets[a].features \cap split.subsets[b].features = {}
       /\ UNION {split.subsets[a].features : a \in 1..split.noSplit} = 1..split.noFeat
       /\ Distinct(split.featList)
       /\ Distinct(split.bathyList)
       /\ Distinct(split.tempfolderList)
       /\ Distinct([a \in 1..split.noSplit |-> split.subsets[a].gdb])
       /\ Cardinality(split.created) = 2 * split.noSplit
       /\ \A a \in 1..split.noSplit :
             /\ split.bathyList[a] = split.subsets[a].gdb \o "/" \o split.inBathy
             /\ split.featList[a] =
                   split.subsets[a].gdb \o "/" \o split.inFeat \o "_" \o ToString(a)

C24_Witness ==
    /\ split # <<>>
    /\ split.pc = "returned"
    /\ split.noSplit = MaxSplit
    /\ split.noFeat = MaxSplit - 1
    /\ split.subsets[1].features = {}
    /\ split.subsets[MaxSplit].features = 1..(MaxSplit - 1)

\* pass k of the verification loop met the area criterion
Satisfied(k) ==
    /\ verify.contourArea[k] # NaN
    /\ verify.contourArea[k] * verify.areaRatioT[2]
          >= verify.featArea * verify.areaRatioT[1]

\* the value a is the largest area in arr, levels without polygon ignored
LargestOf(a, arr) ==
    IF \A k \in 1..Len(arr) : arr[k] = NaN THEN a = NaN
    ELSE /\ a # NaN
         /\ \E k \in 1..Len(arr) : arr[k] = a
         /\ \A k \in 1..Len(arr) : arr[k] # NaN => arr[k] <= a

Said(text) == SelectSeq(batch.messages, LAMBDA m : m[1] = text)

C23_FailedFeatureUnassigned ==
    (batch # <<>> /\ batch.pc \in {"done", "aborted"}) =>
       \A featID \in batch.raised :
          /\ \A c \in ClassesOf(batch.workspace, featID) : c.calculated = {}
          /\ \A j \in 1..Len(batch.mergedFeat) :
                batch.mergedFeat[j].featID = featID =>
                   batch.mergedFeat[j].class.calculated = {}
          /\ \A j \in 1..Len(batch.cursor) :
                batch.cursor[j] = featID => batch.inFeatClass[j] = {}

\* C26: the geodatabase is compacted once every 100 passes of the loop:
\* two consecutive compactions are exactly 100 passes apart, whether or not
\* features failed in between.
C26_CompactedEvery100 ==
    batch # <<>> =>
       \A a \in 1..(Len(batch.compacted) - 1) :
          batch.compacted[a + 1] - batch.compacted[a] = CompactEvery
====
